---- MODULE Spec2Model ----
(***************************************************************************)
(* Study Suggestion Engine of study-planner-ai (hook useStudySuggestions). *)
(*                                                                         *)
(* Numbers: the code computes scores in IEEE doubles with one decimal at   *)
(* most (urgency 0, 0.5, 1.0, 1.2, 1.5, 2.0; bonus 2.0).  The model keeps  *)
(* urgency factors, bonuses, scores and thresholds in TENTHS, as integers: *)
(* urgency 1.2 is 12, DELAY_BONUS 2.0 is 20, the threshold 12 is 120 and a *)
(* score (D + B) * (1 + U) + bonus is (D + B) * (10 + U) + bonus.  Over    *)
(* the weights 1..5 every comparison of two scores and of a score with a   *)
(* threshold has the same outcome in doubles and in tenths.                *)
(*                                                                         *)
(* Time: instants are integers counting ticks; a day is TicksPerDay ticks. *)
(***************************************************************************)
EXTENDS Integers, Sequences, FiniteSets, TLC

\* ---------------------------------------------------------------- bounds
TicksPerDay == 2
MaxSubjects == 3
MaxDeadlines == 3
MaxDelays == 2
MaxSlots == 8
MaxDays == 9
UnitsPerMinute == 2
MaxSlotMinutes == 150
MaxSuggestSubjects == 2
MaxFreeSlots == 3
MaxCodeLen == 4
MaxBlockDigits == 2
MaxTokens == 3
MaxCalls == 2
MaxStoreSubjects == 2
MaxTicks == 2
MaxAttempts == 3

\* ------------------------------------------------------ program constants
DELAY_BONUS == 20
REPEAT_ONCE_THRESHOLD == 120
REPEAT_TRIPLE_THRESHOLD == 150
STUDY_BLOCK_MINUTES == 50
BREAK_MINUTES == 10

VARIABLES
    now,            \* the wall clock, as new Date() reads it
    subjects,       \* argument subjects: Subject[]
    deadlines,      \* argument deadlines: CalendarEvent[]
    activeDelays,   \* argument activeDelays: StudyDelay[]
    priorities,     \* result of calculateSubjectPriorities
    numSlots,       \* argument numSlots of distributeSubjectsToSlots
    pool,           \* local allocation of distributeSubjectsToSlots after its for loop
    allocation,     \* result of distributeSubjectsToSlots
    probe,          \* one evaluation of the scoring formula on direct inputs
    freeSlots,      \* argument freeSlots: CalendarEvent[] (free_study events)
    blocks,         \* result of generateStudyBlocksForSubject
    suggestions,    \* result of generateSuggestions
    scoredAt,       \* the instant calculateSubjectPriorities read when
                    \* generateSuggestions called it
    code,           \* argument of parseSigaaSchedule: a sequence of characters
    parsed,         \* result of parseSigaaSchedule: <<>> for null, else
                    \* <<ParsedSchedule>>
    codes,          \* argument of parseMultipleSigaaSchedules
    schedules,      \* result of parseMultipleSigaaSchedules
    parsedServer,   \* result of parseSigaaSchedule of extract-enrollment
    store,          \* rows of table study_delays of the user
    localDelays,    \* React state delays of useStudySuggestions
    calls,          \* the calls of markAsDelayed, clearDelay, fetchDelays
    nextId,         \* number of rows inserted so far (row ids)
    ticks,          \* number of times the clock has advanced
    attempts,       \* rows of table login_attempts, in insertion order
    request,        \* body { email, action } of the last request to rate-limit
    reply,          \* status and body of the last response of rate-limit
    pc              \* position of the caller: "input", "scored", "distributed",
                    \* "probe", "segmented", "suggested"

vars == <<now, subjects, deadlines, activeDelays, priorities, numSlots, pool,
          allocation, probe, freeSlots, blocks, suggestions, scoredAt, code,
          parsed, codes, schedules, parsedServer, store, localDelays, calls,
          nextId, ticks, attempts, request, reply, pc>>

parserVars == <<code, parsed>>

multiVars == <<codes, schedules, parsedServer>>

storeVars == <<store, localDelays, calls, nextId, ticks>>

limitVars == <<attempts, request, reply>>

extraVars == <<multiVars, storeVars, limitVars>>

\* ------------------------------------------------------------ data shapes
\* difficulty_weight / dedication_weight are optional numbers: 0 stands for
\* an absent (undefined, null or 0) weight, all of which are falsy in the code.
Subject(id, D, B, status) ==
    [id |-> id, difficulty_weight |-> D, dedication_weight |-> B, status |-> status]

\* A deadline event; subject_id 0 is an event bound to no subject.
Deadline(id, subjectId, startAt) ==
    [id |-> id, subject_id |-> subjectId, start_datetime |-> startAt]

StudyDelay(subjectId, expiresAt) ==
    [subject_id |-> subjectId, expires_at |-> expiresAt]

\* ------------------------------------------------------- date-fns helpers
isAfter(date, dateToCompare) == date > dateToCompare

\* Full days between two instants, truncated towards zero.
differenceInDays(dateLeft, dateRight) ==
    LET diff == dateLeft - dateRight
    IN  IF diff >= 0 THEN diff \div TicksPerDay ELSE -((-diff) \div TicksPerDay)

\* ------------------------------------------------------------ Array.sort
\* Array.prototype.sort is stable: the permutation of 1..Len(keys) that puts
\* keys in ascending order and keeps equal keys in their input order.
RECURSIVE stableOrder(_)
stableOrder(keys) ==
    IF keys = <<>> THEN <<>>
    ELSE LET n == Len(keys)
             front == stableOrder(SubSeq(keys, 1, n - 1))
             k == Cardinality({i \in 1..(n - 1) : keys[i] <= keys[n]})
         IN  SubSeq(front, 1, k) \o <<n>> \o SubSeq(front, k + 1, n - 1)

permute(list, order) == [i \in 1..Len(list) |-> list[order[i]]]

\* .sort((a, b) => a.score - b.score): the comparator with its operands swapped.
sortByScoreAscending(list) ==
    permute(list, stableOrder([i \in 1..Len(list) |-> list[i].score]))

\* .sort((a, b) => b.score - a.score)
sortByScore(list) ==
    permute(list, stableOrder([i \in 1..Len(list) |-> -list[i].score]))

\* The slots left in the order of the input.
sortByStartNot(list) == list

\* .sort((a, b) => getTime(a.start_datetime) - getTime(b.start_datetime))
sortByStart(list) ==
    permute(list, stableOrder([i \in 1..Len(list) |-> list[i].start_datetime]))

\* ----------------------------------------------------------- the scorer
\* The ladder with its third rung written < 2 instead of <= 2.
calculateUrgencyFactorShifted(daysUntilDeadline) ==
    IF daysUntilDeadline < 0 THEN 20
    ELSE IF daysUntilDeadline <= 1 THEN 15
    ELSE IF daysUntilDeadline < 2 THEN 12
    ELSE IF daysUntilDeadline < 4 THEN 10
    ELSE IF daysUntilDeadline <= 7 THEN 5
    ELSE 0

calculateUrgencyFactor(daysUntilDeadline) ==
    IF daysUntilDeadline < 0 THEN 20
    ELSE IF daysUntilDeadline <= 1 THEN 15
    ELSE IF daysUntilDeadline <= 2 THEN 12
    ELSE IF daysUntilDeadline < 4 THEN 10
    ELSE IF daysUntilDeadline <= 7 THEN 5
    ELSE 0

\* The copy of the hook kept in src/unnamed/part_012 (coarser ladder).
calculateUrgencyFactorCoarse(daysUntilDeadline) ==
    IF daysUntilDeadline < 0 THEN 15
    ELSE IF daysUntilDeadline < 4 THEN 10
    ELSE IF daysUntilDeadline <= 7 THEN 5
    ELSE 0

\* urgencyFactor of a subject whose nearest deadline is nearestDeadline (the
\* empty sequence when it has none).
urgencyOf(nearestDeadline, clock) ==
    IF nearestDeadline # <<>>
    THEN calculateUrgencyFactor(
             differenceInDays(nearestDeadline[1].start_datetime, clock))
    ELSE 0

\* The same lines in src/unnamed/part_012.
urgencyOfCoarse(nearestDeadline, clock) ==
    IF nearestDeadline # <<>>
    THEN calculateUrgencyFactorCoarse(
             differenceInDays(nearestDeadline[1].start_datetime, clock))
    ELSE 0

\* A subject filter that forgets the status.
isScoredAnyStatus(subject) ==
    /\ subject.difficulty_weight # 0
    /\ subject.dedication_weight # 0

\* A subject filter that forgets the weights.
isScoredAnyWeight(subject) == subject.status # "finalizada"

\* The subject filter of calculateSubjectPriorities.
isScored(subject) ==
    /\ subject.difficulty_weight # 0
    /\ subject.dedication_weight # 0
    /\ subject.status # "finalizada"

\* A deadline filter that forgets the subject (every future deadline counts).
subjectDeadlinesAnySubject(subject, dl, clock) ==
    sortByStart(SelectSeq(dl, LAMBDA d : isAfter(d.start_datetime, clock)))

\* A deadline filter that keeps the past deadlines of the subject.
subjectDeadlinesAnyTime(subject, dl, clock) ==
    sortByStart(SelectSeq(dl, LAMBDA d : d.subject_id = subject.id))

\* The future deadlines of one subject, nearest first.
subjectDeadlines(subject, dl, clock) ==
    sortByStart(
        SelectSeq(SelectSeq(dl, LAMBDA d : d.subject_id = subject.id),
                  LAMBDA d : isAfter(d.start_datetime, clock)))

\* A delay test that accepts a record expiring exactly now.
hasDelayInclusive(subject, delays, clock) ==
    \E i \in 1..Len(delays) :
        /\ delays[i].subject_id = subject.id
        /\ delays[i].expires_at >= clock

hasDelay(subject, delays, clock) ==
    \E i \in 1..Len(delays) :
        /\ delays[i].subject_id = subject.id
        /\ isAfter(delays[i].expires_at, clock)

\* A score that leaves the delay bonus out.
scoreWithoutBonus(D, B, urgencyFactor, delayBonus) ==
    (D + B) * (10 + urgencyFactor)

\* A score with the sign of the urgency term slipped.
scoreUrgencyInverted(D, B, urgencyFactor, delayBonus) ==
    (D + B) * (10 - urgencyFactor) + delayBonus

\* P = (D + B) x (1 + U) + DelayBonus, in tenths.
score(D, B, urgencyFactor, delayBonus) ==
    (D + B) * (10 + urgencyFactor) + delayBonus

\* The body of the .map callback: one SubjectPriority record.  nearestDeadline
\* is subjectDeadlines[0]: the empty sequence when undefined, else <<deadline>>.
scoreSubject(subject, dl, delays, clock) ==
    LET D == IF subject.difficulty_weight # 0 THEN subject.difficulty_weight ELSE 3
        B == IF subject.dedication_weight # 0 THEN subject.dedication_weight ELSE 3
        sd == subjectDeadlines(subject, dl, clock)
        nearestDeadline == IF sd = <<>> THEN <<>> ELSE <<sd[1]>>
        urgencyFactor == urgencyOf(nearestDeadline, clock)
        delayBonus == IF hasDelay(subject, delays, clock) THEN DELAY_BONUS ELSE 0
    IN  [subject |-> subject,
         difficultyWeight |-> D,
         dedicationWeight |-> B,
         urgencyFactor |-> urgencyFactor,
         delayBonus |-> delayBonus,
         score |-> score(D, B, urgencyFactor, delayBonus),
         nearestDeadline |-> nearestDeadline]

\* clock is the value new Date() returns on entry.
calculateSubjectPriorities(subj, dl, delays, clock) ==
    LET eligible == SelectSeq(subj, isScored)
    IN  sortByScore([i \in 1..Len(eligible) |->
                        scoreSubject(eligible[i], dl, delays, clock)])

\* ------------------------------------------------------ the score card
\* const maxPossibleScore = (5 + 5) * (1 + 1.5) + 2, in tenths
maxPossibleScore == (5 + 5) * (10 + 15) + 20

\* ------------------------------------------------------ the distributor
\* The thresholds read strictly, as the doc comment has them (score > 12, > 15).
getExtraSlotsStrict(sc) ==
    IF sc > REPEAT_TRIPLE_THRESHOLD THEN 3
    ELSE IF sc > REPEAT_ONCE_THRESHOLD THEN 1
    ELSE 0

getExtraSlots(sc) ==
    IF sc >= REPEAT_TRIPLE_THRESHOLD THEN 3
    ELSE IF sc >= REPEAT_ONCE_THRESHOLD THEN 1
    ELSE 0

\* The for loop: each priority once, followed by its extras.
RECURSIVE initialAllocation(_)
initialAllocation(prios) ==
    IF prios = <<>> THEN <<>>
    ELSE [i \in 1..(1 + getExtraSlots(Head(prios).score)) |-> Head(prios)]
             \o initialAllocation(Tail(prios))

\* A padding step that is left out.
cyclePrioritiesNever(alloc, prios, slots) == alloc

\* A padding step that repeats the top priority only (idx never advances).
cyclePrioritiesTopOnly(alloc, prios, slots) ==
    IF slots > Len(alloc)
    THEN alloc \o [k \in 1..(slots - Len(alloc)) |-> prios[1]]
    ELSE alloc

\* if (numSlots > allocation.length) push priorities[idx % priorities.length]
cyclePriorities(alloc, prios, slots) ==
    IF slots > Len(alloc)
    THEN alloc \o [k \in 1..(slots - Len(alloc)) |->
                      prios[((k - 1) % Len(prios)) + 1]]
    ELSE alloc

\* A truncation that sorts with the comparator's operands swapped.
takeTopAscending(alloc, slots) ==
    IF slots < Len(alloc)
    THEN SubSeq(sortByScoreAscending(alloc), 1, slots)
    ELSE alloc

\* if (numSlots < allocation.length) sort by score, slice(0, numSlots)
takeTop(alloc, slots) ==
    IF slots < Len(alloc)
    THEN SubSeq(sortByScore(alloc), 1, slots)
    ELSE alloc

distributeSubjectsToSlots(prios, slots) ==
    IF Len(prios) = 0 \/ slots = 0 THEN <<>>
    ELSE takeTop(cyclePriorities(initialAllocation(prios), prios, slots), slots)

\* ------------------------------------------------------- the segmenter
\* A free_study event.  Its instants count units, UnitsPerMinute to the minute;
\* subject_id 0 is a slot with no manual subject; end_datetime is the empty
\* sequence when absent, else <<instant>>.
FreeSlot(id, subjectId, startAt, endAt) ==
    [id |-> id, subject_id |-> subjectId, start_datetime |-> startAt,
     end_datetime |-> endAt]

addMinutes(date, amount) == date + amount * UnitsPerMinute

\* Math.floor(milliseconds / 60000)
floorMinutes(duration) == duration \div UnitsPerMinute

\* A study block that always takes the full 50 minutes.
studyLengthAlwaysFull(remainingMinutes) == STUDY_BLOCK_MINUTES

\* Math.min(STUDY_BLOCK_MINUTES, remainingMinutes)
studyLength(remainingMinutes) ==
    IF remainingMinutes < STUDY_BLOCK_MINUTES THEN remainingMinutes
    ELSE STUDY_BLOCK_MINUTES

\* A loop exit at less than 10 minutes.
tooShortUnderTen(remainingMinutes) == remainingMinutes < 10

\* if (remainingMinutes < 20) break
tooShort(remainingMinutes) == remainingMinutes < 20

\* A break test that only asks the break itself to fit.
canAddBreakIfItFits(afterBreakRemaining) == afterBreakRemaining >= 0

\* if (afterBreakRemaining >= 20)
canAddBreak(afterBreakRemaining) == afterBreakRemaining >= 20

studyBlock(freeSlot, priority, n, startTime, endTime) ==
    [id |-> <<freeSlot.id, "block", n>>, subject |-> priority.subject,
     startTime |-> startTime, endTime |-> endTime, isBreak |-> FALSE,
     freeSlotId |-> freeSlot.id]

\* A break pushed with the fields of the study block (isBreak left false).
breakBlockAsStudy(freeSlot, priority, n, startTime, endTime) ==
    [id |-> <<freeSlot.id, "break", n>>, subject |-> priority.subject,
     startTime |-> startTime, endTime |-> endTime, isBreak |-> FALSE,
     freeSlotId |-> freeSlot.id]

breakBlock(freeSlot, priority, n, startTime, endTime) ==
    [id |-> <<freeSlot.id, "break", n>>, subject |-> priority.subject,
     startTime |-> startTime, endTime |-> endTime, isBreak |-> TRUE,
     freeSlotId |-> freeSlot.id]

\* One pass through the body of while (true): st holds the locals blocks and
\* currentTime, and done once a break statement has left the loop.
loopIteration(freeSlot, priority, slotEnd, st) ==
    LET remainingMinutes == floorMinutes(slotEnd - st.currentTime)
        studyEnd == addMinutes(st.currentTime, studyLength(remainingMinutes))
        study == studyBlock(freeSlot, priority, Len(st.blocks),
                            st.currentTime, studyEnd)
        afterBreakRemaining ==
            floorMinutes(slotEnd - addMinutes(studyEnd, BREAK_MINUTES))
        breakEnd == addMinutes(studyEnd, BREAK_MINUTES)
    IN  IF tooShort(remainingMinutes)
        THEN [st EXCEPT !.done = TRUE]
        ELSE IF canAddBreak(afterBreakRemaining)
        THEN [blocks |-> st.blocks \o
                  <<study, breakBlock(freeSlot, priority, Len(st.blocks) + 1,
                                      studyEnd, breakEnd)>>,
              currentTime |-> breakEnd, done |-> FALSE]
        ELSE [blocks |-> Append(st.blocks, study), currentTime |-> studyEnd,
              done |-> TRUE]

RECURSIVE runLoop(_, _, _, _)
runLoop(freeSlot, priority, slotEnd, st) ==
    IF st.done THEN st.blocks
    ELSE runLoop(freeSlot, priority, slotEnd,
                 loopIteration(freeSlot, priority, slotEnd, st))

generateStudyBlocksForSubject(freeSlot, priority) ==
    IF freeSlot.end_datetime = <<>> THEN <<>>
    ELSE runLoop(freeSlot, priority, freeSlot.end_datetime[1],
                 [blocks |-> <<>>, currentTime |-> freeSlot.start_datetime,
                  done |-> FALSE])

\* ----------------------------------------------------- the orchestrator
\* A slot filter that forgets the manual assignments.
futureFreeSlotsAnySubject(fs, clock) ==
    sortByStart(SelectSeq(fs, LAMBDA slot : isAfter(slot.start_datetime, clock)))

\* freeSlots.filter(start after now).filter(!slot.subject_id).sort(by start)
futureFreeSlots(fs, clock) ==
    sortByStart(
        SelectSeq(SelectSeq(fs, LAMBDA slot : isAfter(slot.start_datetime, clock)),
                  LAMBDA slot : slot.subject_id = 0))

\* A final filter that keeps every suggestion.
hasBlocksAlways(s) == TRUE

\* .filter(s => s.blocks.length > 0)
hasBlocks(s) == Len(s.blocks) > 0

\* The body of generateSuggestions with its locals.  clock is the instant read
\* at its first line, scorerClock the instant calculateSubjectPriorities reads
\* for itself; the locals of a branch that is not taken are left empty.
suggestionRun(subj, fs, dl, delays, clock, scorerClock) ==
    LET future == futureFreeSlots(fs, clock)
        nothing == [priorities |-> <<>>, numSlots |-> 0, distribution |-> <<>>,
                    suggestions |-> <<>>, scored |-> FALSE]
    IN  IF Len(future) = 0 \/ Len(subj) = 0 THEN nothing
        ELSE LET prios == calculateSubjectPriorities(subj, dl, delays, scorerClock)
             IN  IF Len(prios) = 0 THEN [nothing EXCEPT !.scored = TRUE]
                 ELSE LET distribution ==
                              distributeSubjectsToSlots(prios, Len(future))
                          mapped ==
                              [index \in 1..Len(future) |->
                                  IF index <= Len(distribution)
                                  THEN [freeSlot |-> future[index],
                                        blocks |-> generateStudyBlocksForSubject(
                                                       future[index],
                                                       distribution[index]),
                                        assignedSubject |->
                                            <<distribution[index].subject>>]
                                  ELSE [freeSlot |-> future[index],
                                        blocks |-> <<>>,
                                        assignedSubject |-> <<>>]]
                      IN  [priorities |-> prios,
                           numSlots |-> Len(future),
                           distribution |-> distribution,
                           scored |-> TRUE,
                           suggestions |-> SelectSeq(mapped, hasBlocks)]

generateSuggestions(subj, fs, dl, delays, clock, scorerClock) ==
    suggestionRun(subj, fs, dl, delays, clock, scorerClock).suggestions

\* ------------------------------------------------- the SIGAA code parser
\* A string is a sequence of one-character strings.
Digits == <<"0", "1", "2", "3", "4", "5", "6", "7", "8", "9">>

isDigit(c) == \E i \in 1..Len(Digits) : Digits[i] = c

\* parseInt of one digit character
parseInt(c) == (CHOOSE i \in 1..Len(Digits) : Digits[i] = c) - 1

\* String.prototype.toUpperCase on the letters of the inputs
upperChar(c) ==
    CASE c = "m" -> "M"
      [] c = "t" -> "T"
      [] c = "n" -> "N"
      [] c = "x" -> "X"
      [] OTHER -> c

toUpperCase(str) == [i \in 1..Len(str) |-> upperChar(str[i])]

isWhiteSpace(c) == c = " "

RECURSIVE trimStart(_)
trimStart(str) ==
    IF str # <<>> /\ isWhiteSpace(Head(str)) THEN trimStart(Tail(str)) ELSE str

RECURSIVE trimEnd(_)
trimEnd(str) ==
    IF str # <<>> /\ isWhiteSpace(str[Len(str)])
    THEN trimEnd(SubSeq(str, 1, Len(str) - 1))
    ELSE str

trim(str) == trimEnd(trimStart(str))

\* A table that starts the week at SIGAA digit 1.
DAY_MAP_FromOne ==
    ("1" :> 1) @@ ("2" :> 2) @@ ("3" :> 3) @@ ("4" :> 4) @@ ("5" :> 5) @@ ("6" :> 6)

DAY_MAP ==
    ("2" :> 1) @@ ("3" :> 2) @@ ("4" :> 3) @@ ("5" :> 4) @@ ("6" :> 5) @@ ("7" :> 6)

\* Times "HH:MM" are pairs <<HH, MM>>.
SHIFT_BLOCKS ==
    ("M" :> (("1" :> <<<<7, 0>>, <<8, 0>>>>) @@ ("2" :> <<<<8, 0>>, <<9, 0>>>>)
             @@ ("3" :> <<<<9, 0>>, <<10, 0>>>>) @@ ("4" :> <<<<10, 0>>, <<11, 0>>>>)
             @@ ("5" :> <<<<11, 0>>, <<12, 0>>>>) @@ ("6" :> <<<<12, 0>>, <<13, 0>>>>)))
    @@ ("T" :> (("1" :> <<<<13, 0>>, <<14, 0>>>>) @@ ("2" :> <<<<14, 0>>, <<15, 0>>>>)
             @@ ("3" :> <<<<15, 0>>, <<16, 0>>>>) @@ ("4" :> <<<<16, 0>>, <<17, 0>>>>)
             @@ ("5" :> <<<<17, 0>>, <<18, 0>>>>) @@ ("6" :> <<<<18, 0>>, <<19, 0>>>>)))
    @@ ("N" :> (("1" :> <<<<18, 30>>, <<19, 20>>>>) @@ ("2" :> <<<<19, 20>>, <<20, 10>>>>)
             @@ ("3" :> <<<<20, 10>>, <<21, 0>>>>) @@ ("4" :> <<<<21, 0>>, <<21, 50>>>>)))

\* code.match(/^(\d)([MTN])(\d+)$/i)
matchesPattern(str) ==
    /\ Len(str) >= 3
    /\ isDigit(str[1])
    /\ upperChar(str[2]) \in {"M", "T", "N"}
    /\ \A i \in 3..Len(str) : isDigit(str[i])

\* <<>> for null, else <<components>>
extractComponents(str) ==
    IF ~matchesPattern(str) THEN <<>>
    ELSE <<[dayDigit |-> str[1],
            shift |-> upperChar(str[2]),
            blocks |-> SubSeq(str, 3, Len(str))]>>

\* The blocks left in the order of the code.
sortNumericallyNot(digits) == digits

\* validBlocks.sort((a, b) => parseInt(a) - parseInt(b))
sortNumerically(digits) ==
    permute(digits, stableOrder([i \in 1..Len(digits) |-> parseInt(digits[i])]))

\* blocks.filter(b => shiftBlocks[b])
validBlocksOf(shiftBlocks, digits) ==
    SelectSeq(digits, LAMBDA b : b \in DOMAIN shiftBlocks)

\* The part of parseSigaaSchedule below the validation of the shift.
scheduleOfBlocks(dayOfWeek, shiftBlocks, digits) ==
    LET validBlocks == validBlocksOf(shiftBlocks, digits)
    IN  IF Len(validBlocks) = 0 THEN <<>>
        ELSE LET sorted == sortNumerically(validBlocks)
                 firstBlock == sorted[1]
                 lastBlock == sorted[Len(sorted)]
             IN  <<[day_of_week |-> dayOfWeek,
                    start_time |-> shiftBlocks[firstBlock][1],
                    end_time |-> shiftBlocks[lastBlock][2]]>>

parseSigaaSchedule(str) ==
    IF str = <<>> THEN <<>>
    ELSE LET components == extractComponents(toUpperCase(trim(str)))
         IN  IF components = <<>> THEN <<>>
             ELSE IF components[1].dayDigit \notin DOMAIN DAY_MAP THEN <<>>
             ELSE IF components[1].shift \notin DOMAIN SHIFT_BLOCKS THEN <<>>
             ELSE scheduleOfBlocks(DAY_MAP[components[1].dayDigit],
                                   SHIFT_BLOCKS[components[1].shift],
                                   components[1].blocks)

\* A separator class without the semicolon.
isSeparatorNoSemicolon(c) == isWhiteSpace(c) \/ c = ","

\* [\s,;]
isSeparator(c) == isWhiteSpace(c) \/ c = "," \/ c = ";"

\* str.split(/[\s,;]+/): the pieces between the runs of separators; a string
\* that starts or ends with a separator gives an empty first or last piece.
RECURSIVE splitFrom(_, _, _, _)
splitFrom(str, current, pieces, inSeparator) ==
    IF str = <<>> THEN Append(pieces, current)
    ELSE IF isSeparator(Head(str))
    THEN IF inSeparator THEN splitFrom(Tail(str), current, pieces, TRUE)
         ELSE splitFrom(Tail(str), <<>>, Append(pieces, current), TRUE)
    ELSE splitFrom(Tail(str), Append(current, Head(str)), pieces, FALSE)

split(str) == splitFrom(str, <<>>, <<>>, FALSE)

\* .filter(Boolean) on strings
filterBoolean(pieces) == SelectSeq(pieces, LAMBDA piece : piece # <<>>)

\* for (const code of codeList) { ... if (parsed) results.push(parsed) }
RECURSIVE collectParsed(_)
collectParsed(codeList) ==
    IF codeList = <<>> THEN <<>>
    ELSE parseSigaaSchedule(Head(codeList)) \o collectParsed(Tail(codeList))

parseMultipleSigaaSchedules(str) ==
    IF str = <<>> THEN <<>>
    ELSE collectParsed(filterBoolean(split(str)))

\* ----------------------------- the parser copy of extract-enrollment
DAY_MAP_Server ==
    ("2" :> 1) @@ ("3" :> 2) @@ ("4" :> 3) @@ ("5" :> 4) @@ ("6" :> 5) @@ ("7" :> 6)

\* A table whose evening blocks last an hour like the others.
SHIFT_BLOCKS_ServerHourly ==
    ("M" :> (("1" :> <<<<7, 0>>, <<8, 0>>>>) @@ ("2" :> <<<<8, 0>>, <<9, 0>>>>)
             @@ ("3" :> <<<<9, 0>>, <<10, 0>>>>) @@ ("4" :> <<<<10, 0>>, <<11, 0>>>>)
             @@ ("5" :> <<<<11, 0>>, <<12, 0>>>>) @@ ("6" :> <<<<12, 0>>, <<13, 0>>>>)))
    @@ ("T" :> (("1" :> <<<<13, 0>>, <<14, 0>>>>) @@ ("2" :> <<<<14, 0>>, <<15, 0>>>>)
             @@ ("3" :> <<<<15, 0>>, <<16, 0>>>>) @@ ("4" :> <<<<16, 0>>, <<17, 0>>>>)
             @@ ("5" :> <<<<17, 0>>, <<18, 0>>>>) @@ ("6" :> <<<<18, 0>>, <<19, 0>>>>)))
    @@ ("N" :> (("1" :> <<<<19, 0>>, <<20, 0>>>>) @@ ("2" :> <<<<20, 0>>, <<21, 0>>>>)
             @@ ("3" :> <<<<21, 0>>, <<22, 0>>>>) @@ ("4" :> <<<<22, 0>>, <<23, 0>>>>)))

SHIFT_BLOCKS_Server ==
    ("M" :> (("1" :> <<<<7, 0>>, <<8, 0>>>>) @@ ("2" :> <<<<8, 0>>, <<9, 0>>>>)
             @@ ("3" :> <<<<9, 0>>, <<10, 0>>>>) @@ ("4" :> <<<<10, 0>>, <<11, 0>>>>)
             @@ ("5" :> <<<<11, 0>>, <<12, 0>>>>) @@ ("6" :> <<<<12, 0>>, <<13, 0>>>>)))
    @@ ("T" :> (("1" :> <<<<13, 0>>, <<14, 0>>>>) @@ ("2" :> <<<<14, 0>>, <<15, 0>>>>)
             @@ ("3" :> <<<<15, 0>>, <<16, 0>>>>) @@ ("4" :> <<<<16, 0>>, <<17, 0>>>>)
             @@ ("5" :> <<<<17, 0>>, <<18, 0>>>>) @@ ("6" :> <<<<18, 0>>, <<19, 0>>>>)))
    @@ ("N" :> (("1" :> <<<<18, 30>>, <<19, 20>>>>) @@ ("2" :> <<<<19, 20>>, <<20, 10>>>>)
             @@ ("3" :> <<<<20, 10>>, <<21, 0>>>>) @@ ("4" :> <<<<21, 0>>, <<21, 50>>>>)))

\* parseSigaaSchedule of supabase/functions/extract-enrollment/index.ts; the
\* absent location is the string "null".
parseSigaaScheduleServer(str) ==
    IF str = <<>> THEN <<>>
    ELSE LET cleaned == toUpperCase(trim(str))
         IN  IF ~matchesPattern(cleaned) THEN <<>>
             ELSE LET dayDigit == cleaned[1]
                      shift == cleaned[2]
                      digits == SubSeq(cleaned, 3, Len(cleaned))
                  IN  IF dayDigit \notin DOMAIN DAY_MAP_Server THEN <<>>
                      ELSE IF upperChar(shift) \notin DOMAIN SHIFT_BLOCKS_Server
                      THEN <<>>
                      ELSE LET shiftBlocks == SHIFT_BLOCKS_Server[upperChar(shift)]
                               validBlocks ==
                                   SelectSeq(digits,
                                             LAMBDA b : b \in DOMAIN shiftBlocks)
                           IN  IF Len(validBlocks) = 0 THEN <<>>
                               ELSE LET sorted == sortNumerically(validBlocks)
                                        firstBlock == sorted[1]
                                        lastBlock == sorted[Len(sorted)]
                                    IN  <<[day_of_week |-> DAY_MAP_Server[dayDigit],
                                           start_time |-> shiftBlocks[firstBlock][1],
                                           end_time |-> shiftBlocks[lastBlock][2],
                                           location |-> "null"]>>

\* ------------------------------------------------- the rate-limit function
\* 5 * 60 * 1000 milliseconds, as subtracted from and added to Date.now()
FIVE_MINUTES == 5 * 60 * 1000

\* String.prototype.toLowerCase on the letters of the inputs
lowerChar(c) ==
    CASE c = "U" -> "u"
      [] c = "V" -> "v"
      [] OTHER -> c

toLowerCase(str) == [i \in 1..Len(str) |-> lowerChar(str[i])]

\* email.toLowerCase().trim()
normalize(email) == trim(toLowerCase(email))

\* A row of login_attempts; attempted_at defaults to now() of the insert.
AttemptRow(email, attemptedAt, success) ==
    [email |-> email, attempted_at |-> attemptedAt, success |-> success]

\* .select("*").eq("email", e).eq("success", false).gte("attempted_at", since)
selectFailedSince(rows, email, since) ==
    SelectSeq(rows, LAMBDA r : /\ r.email = email
                               /\ r.success = FALSE
                               /\ r.attempted_at >= since)

\* .delete().eq("email", e)
deleteByEmail(rows, email) == SelectSeq(rows, LAMBDA r : r.email # email)

\* .delete().eq("email", e).eq("success", false)
deleteFailedByEmail(rows, email) ==
    SelectSeq(rows, LAMBDA r : ~(r.email = email /\ r.success = FALSE))

\* Math.ceil(milliseconds / 1000)
ceilSeconds(milliseconds) == -((-milliseconds) \div 1000)

\* Math.max(0, n)
atLeastZero(n) == IF n > 0 THEN n ELSE 0

\* The body of the answer to "check": found are the selected rows, last is
\* the position of the row the select returned last, clock is Date.now().
checkBody(found, last, clock) ==
    LET failedAttempts == Len(found)
        blocked == failedAttempts >= 3
        remainingSeconds ==
            IF blocked /\ Len(found) > 0
            THEN LET lastAttempt == found[last].attempted_at
                     blockEndsAt == lastAttempt + FIVE_MINUTES
                 IN  atLeastZero(ceilSeconds(blockEndsAt - clock))
            ELSE 0
    IN  [blocked |-> blocked, failedAttempts |-> failedAttempts,
         remainingSeconds |-> remainingSeconds]

\* The body of the answer to "failed"
failedBody(found) ==
    [recorded |-> TRUE, failedAttempts |-> Len(found), blocked |-> Len(found) >= 3]

\* -------------------------------------------------------- the delay store
\* A row of study_delays of the signed-in user.
DelayRow(id, subjectId, expiresAt) ==
    [id |-> id, subject_id |-> subjectId, expires_at |-> expiresAt]

\* addMinutes(new Date(), 24 * 60)
expiryFrom(clock) == addMinutes(clock, 24 * 60)

\* Row level security is enabled on study_delays with policies FOR SELECT,
\* FOR INSERT and FOR DELETE on the user's rows and none FOR UPDATE: a command
\* without policy sees no row and reports no error.
policyAllows(command) == command \in {"SELECT", "INSERT", "DELETE"}

\* .insert({user_id, subject_id, delayed_at, expires_at})
insertRow(rows, id, subjectId, expiresAt) ==
    IF policyAllows("INSERT") THEN rows \cup {DelayRow(id, subjectId, expiresAt)}
    ELSE rows

\* .update({delayed_at, expires_at}).eq('id', existingDelay.id)
updateRow(rows, id, expiresAt) ==
    IF policyAllows("UPDATE")
    THEN {IF r.id = id THEN [r EXCEPT !.expires_at = expiresAt] ELSE r : r \in rows}
    ELSE rows

\* .delete().eq('user_id', user.id).eq('subject_id', subjectId)
deleteRows(rows, subjectId) ==
    IF policyAllows("DELETE") THEN {r \in rows : r.subject_id # subjectId}
    ELSE rows

\* .select('*').eq('user_id', user.id).gte('expires_at', cutoff)
selectRows(rows, cutoff) ==
    IF policyAllows("SELECT") THEN {r \in rows : r.expires_at >= cutoff}
    ELSE {}

\* The arrays a result set can arrive as: the query has no ORDER BY.
Orderings(rows) ==
    {f \in [1..Cardinality(rows) -> rows] :
        \A i, j \in 1..Cardinality(rows) : i # j => f[i] # f[j]}

\* delays.find(d => d.subject_id === subjectId): <<>> for undefined
findDelay(list, subjectId) ==
    LET matching == SelectSeq(list, LAMBDA d : d.subject_id = subjectId)
    IN  IF matching = <<>> THEN <<>> ELSE <<matching[1]>>

\* ------------------------------------------------- inputs of the scorer
Statuses == {"ativa", "finalizada"}
Weights == 0..5

SeqsUpTo(S, n) == UNION {[1..k -> S] : k \in 0..n}

Now0 == TicksPerDay

\* One deadline per rung of the urgency ladder, one a day in the past and one
\* exactly now.
DueOffsets ==
    {-TicksPerDay, 0, 1, TicksPerDay, 2 * TicksPerDay, 3 * TicksPerDay,
     4 * TicksPerDay, 7 * TicksPerDay + 1, 8 * TicksPerDay}

SampledDueOffsets == {-TicksPerDay, 0, 1, 2 * TicksPerDay, 8 * TicksPerDay}

ExpiryOffsets == {-1, 0, 1}

numberSubjects(kinds) ==
    [i \in 1..Len(kinds) |-> Subject(i, kinds[i][1], kinds[i][2], kinds[i][3])]

numberDeadlines(kinds) ==
    [i \in 1..Len(kinds) |-> Deadline(i, kinds[i][1], Now0 + kinds[i][2])]

toDelays(kinds) ==
    [i \in 1..Len(kinds) |-> StudyDelay(kinds[i][1], Now0 + kinds[i][2])]

TwoSubjects == <<Subject(1, 3, 3, "ativa"), Subject(2, 4, 2, "ativa")>>

\* One subject over every weight and status, at most one deadline and delay.
InitSingle ==
    /\ subjects \in {numberSubjects(<<k>>) : k \in Weights \X Weights \X Statuses}
    /\ deadlines \in {numberDeadlines(s) : s \in SeqsUpTo({1} \X DueOffsets, 1)}
    /\ activeDelays \in {toDelays(s) : s \in SeqsUpTo({1} \X ExpiryOffsets, 1)}

\* Several subjects with sampled weights: the ranking.
InitRanking ==
    /\ subjects \in {numberSubjects(s) :
                        s \in SeqsUpTo({0, 2, 5} \X {2, 5} \X Statuses, MaxSubjects)}
    /\ deadlines = <<>>
    /\ activeDelays = <<>>

\* Two subjects and deadlines of either, of neither, past and future.
InitDeadlines ==
    /\ subjects = TwoSubjects
    /\ deadlines \in {numberDeadlines(s) :
                         s \in SeqsUpTo((0..2) \X SampledDueOffsets, MaxDeadlines)}
    /\ activeDelays = <<>>

\* Two subjects and delay records of either, of neither, expired and live.
InitDelays ==
    /\ subjects = TwoSubjects
    /\ deadlines = <<>>
    /\ activeDelays \in {toDelays(s) :
                            s \in SeqsUpTo((0..2) \X ExpiryOffsets, MaxDelays)}

\* The value of the variables a specification does not use.
IdleSuggest ==
    freeSlots = <<>> /\ blocks = <<>> /\ suggestions = <<>> /\ scoredAt = 0

IdleParser == code = <<>> /\ parsed = <<>>

IdleMulti == codes = <<>> /\ schedules = <<>> /\ parsedServer = <<>>

IdleStore ==
    /\ store = {}
    /\ localDelays = <<>>
    /\ calls = <<>>
    /\ nextId = 0
    /\ ticks = 0

IdleLimit ==
    /\ attempts = <<>>
    /\ request = [email |-> <<>>, action |-> "none"]
    /\ reply = [status |-> 0]

IdleExtra == IdleMulti /\ IdleStore /\ IdleLimit

IdleProbe ==
    [D |-> 0, B |-> 0, nearestDeadline |-> <<>>, delayed |-> FALSE,
     urgencyFactor |-> 0, urgencyFactorCoarse |-> 0, delayBonus |-> 0, score |-> 0]

Init ==
    /\ now = Now0
    /\ priorities = <<>>
    /\ numSlots = 0
    /\ pool = <<>>
    /\ allocation = <<>>
    /\ probe = IdleProbe
    /\ IdleSuggest
    /\ IdleParser
    /\ IdleExtra
    /\ pc = "input"
    /\ (InitSingle \/ InitRanking \/ InitDeadlines \/ InitDelays)

\* calculateSubjectPriorities(subjects, deadlines, activeDelays)
CalculateSubjectPriorities ==
    /\ pc = "input"
    /\ priorities' = calculateSubjectPriorities(subjects, deadlines, activeDelays, now)
    /\ pc' = "scored"
    /\ UNCHANGED <<now, subjects, deadlines, activeDelays, numSlots, pool,
                   allocation, probe, freeSlots, blocks, suggestions, scoredAt,
                   parserVars, extraVars>>

Next == CalculateSubjectPriorities

Spec == Init /\ [][Next]_vars

\* ---------------------------------------- the distributor on ranked lists
\* Subjects whose scores fall below 12, on 12, between 12 and 15, on 15 and
\* above 15: weights (2,3) or (5,5), a deadline due now (which the scorer
\* ignores), in 2, 3 or 4 days, a delay record expired or live.
DistributeKinds ==
    {<<2, 3>>, <<5, 5>>}
        \X {0, 2 * TicksPerDay, 3 * TicksPerDay, 4 * TicksPerDay} \X {0, 1}

InitDistribute ==
    /\ now = Now0
    /\ \E kinds \in SeqsUpTo(DistributeKinds, MaxSubjects) :
          /\ subjects = [i \in 1..Len(kinds) |->
                            Subject(i, kinds[i][1][1], kinds[i][1][2], "ativa")]
          /\ deadlines = [i \in 1..Len(kinds) |-> Deadline(i, i, Now0 + kinds[i][2])]
          /\ activeDelays = [i \in 1..Len(kinds) |-> StudyDelay(i, Now0 + kinds[i][3])]
    /\ priorities = <<>>
    /\ numSlots = 0
    /\ pool = <<>>
    /\ allocation = <<>>
    /\ probe = IdleProbe
    /\ IdleSuggest
    /\ IdleParser
    /\ IdleExtra
    /\ pc = "input"

\* distributeSubjectsToSlots(priorities, n); pool is the allocation the for
\* loop builds (empty when the first line returns early).
DistributeSubjectsToSlots ==
    /\ pc = "scored"
    /\ \E n \in 0..MaxSlots :
          /\ numSlots' = n
          /\ pool' = IF Len(priorities) = 0 \/ n = 0 THEN <<>>
                     ELSE initialAllocation(priorities)
          /\ allocation' = distributeSubjectsToSlots(priorities, n)
    /\ pc' = "distributed"
    /\ UNCHANGED <<now, subjects, deadlines, activeDelays, priorities, probe,
                   freeSlots, blocks, suggestions, scoredAt, parserVars, extraVars>>

NextDistribute == CalculateSubjectPriorities \/ DistributeSubjectsToSlots

SpecDistribute == InitDistribute /\ [][NextDistribute]_vars

\* ------------------------------------- the scoring formula on direct inputs
ProbeNow == MaxDays * TicksPerDay

ProbeDeadlines == {<<>>} \cup {<<Deadline(1, 1, t)>> : t \in 0..(2 * ProbeNow)}

\* What the .map callback computes from D, B, the nearest deadline and hasDelay.
computeProbe(D, B, nearestDeadline, delayed, clock) ==
    LET urgencyFactor == urgencyOf(nearestDeadline, clock)
        delayBonus == IF delayed THEN DELAY_BONUS ELSE 0
    IN  [D |-> D, B |-> B, nearestDeadline |-> nearestDeadline, delayed |-> delayed,
         urgencyFactor |-> urgencyFactor,
         urgencyFactorCoarse |-> urgencyOfCoarse(nearestDeadline, clock),
         delayBonus |-> delayBonus,
         score |-> score(D, B, urgencyFactor, delayBonus)]

InitFormula ==
    /\ now = ProbeNow
    /\ subjects = <<>>
    /\ deadlines = <<>>
    /\ activeDelays = <<>>
    /\ priorities = <<>>
    /\ numSlots = 0
    /\ pool = <<>>
    /\ allocation = <<>>
    /\ probe = computeProbe(1, 1, <<>>, FALSE, ProbeNow)
    /\ IdleSuggest
    /\ IdleParser
    /\ IdleExtra
    /\ pc = "probe"

idleFormula == <<now, subjects, deadlines, activeDelays, priorities, numSlots,
                 pool, allocation, freeSlots, blocks, suggestions, scoredAt,
                 parserVars, extraVars, pc>>

ProbeDifficulty ==
    /\ \E D \in 1..5 :
          probe' = computeProbe(D, probe.B, probe.nearestDeadline, probe.delayed, now)
    /\ UNCHANGED idleFormula

ProbeDedication ==
    /\ \E B \in 1..5 :
          probe' = computeProbe(probe.D, B, probe.nearestDeadline, probe.delayed, now)
    /\ UNCHANGED idleFormula

ProbeDeadline ==
    /\ \E nd \in ProbeDeadlines :
          probe' = computeProbe(probe.D, probe.B, nd, probe.delayed, now)
    /\ UNCHANGED idleFormula

ProbeDelay ==
    /\ \E delayed \in BOOLEAN :
          probe' = computeProbe(probe.D, probe.B, probe.nearestDeadline, delayed, now)
    /\ UNCHANGED idleFormula

NextFormula == ProbeDifficulty \/ ProbeDedication \/ ProbeDeadline \/ ProbeDelay

SpecFormula == InitFormula /\ [][NextFormula]_vars

\* ------------------------------------------------ the segmenter on one slot
\* The event form stores both ends of an event with seconds and milliseconds
\* set to 0 and on the same date, so a slot lasts a whole number of minutes,
\* which is negative when the end time is before the start time.
SlotStart0 == MaxSlotMinutes * UnitsPerMinute

SlotMinutes == (-MaxSlotMinutes)..MaxSlotMinutes

SegmentPriority == scoreSubject(Subject(1, 3, 3, "ativa"), <<>>, <<>>, 0)

InitSegment ==
    /\ now = 0
    /\ subjects = <<Subject(1, 3, 3, "ativa")>>
    /\ deadlines = <<>>
    /\ activeDelays = <<>>
    /\ priorities = <<SegmentPriority>>
    /\ numSlots = 0
    /\ pool = <<>>
    /\ allocation = <<>>
    /\ probe = IdleProbe
    /\ freeSlots \in
           {<<FreeSlot(1, 0, SlotStart0, <<>>)>>}
               \cup {<<FreeSlot(1, 0, SlotStart0, <<addMinutes(SlotStart0, L)>>)>> :
                        L \in SlotMinutes}
    /\ blocks = <<>>
    /\ suggestions = <<>>
    /\ scoredAt = 0
    /\ IdleParser
    /\ IdleExtra
    /\ pc = "input"

\* generateStudyBlocksForSubject(freeSlot, priority)
GenerateStudyBlocksForSubject ==
    /\ pc = "input"
    /\ blocks' = generateStudyBlocksForSubject(freeSlots[1], priorities[1])
    /\ pc' = "segmented"
    /\ UNCHANGED <<now, subjects, deadlines, activeDelays, priorities, numSlots,
                   pool, allocation, probe, freeSlots, suggestions, scoredAt,
                   parserVars, extraVars>>

NextSegment == GenerateStudyBlocksForSubject

SpecSegment == InitSegment /\ [][NextSegment]_vars

\* ------------------------------------------------------- the orchestrator
\* Instants of this specification count units of the minute scale, so it runs
\* without deadline events (differenceInDays counts ticks of the day scale);
\* the scores differ by the weights and by the delay bonus.
SuggestNow == SlotStart0

\* <<difficulty, dedication, status>>: two scored subjects, one without a
\* difficulty weight, one finished.
SubjectKinds ==
    {<<5, 5, "ativa">>, <<2, 3, "ativa">>, <<0, 3, "ativa">>,
     <<3, 3, "finalizada">>}

\* <<minutes from now to the start, manual subject, length in minutes or
\* <<>> for no end>>
SlotKinds ==
    {<<60, 0, <<80>>>>, <<10, 0, <<19>>>>, <<200, 0, <<>>>>, <<30, 1, <<45>>>>,
     <<0, 0, <<45>>>>, <<5, 0, <<45>>>>}

numberSlots(kinds) ==
    [i \in 1..Len(kinds) |->
        LET startAt == addMinutes(SuggestNow, kinds[i][1])
        IN  FreeSlot(i, kinds[i][2], startAt,
                     IF kinds[i][3] = <<>> THEN <<>>
                     ELSE <<addMinutes(startAt, kinds[i][3][1])>>)]

InitSuggest ==
    /\ now = SuggestNow
    /\ subjects \in {numberSubjects(s) : s \in SeqsUpTo(SubjectKinds, MaxSuggestSubjects)}
    /\ deadlines = <<>>
    /\ activeDelays \in {<<>>, <<StudyDelay(1, SuggestNow + 1)>>}
    /\ priorities = <<>>
    /\ numSlots = 0
    /\ pool = <<>>
    /\ allocation = <<>>
    /\ probe = IdleProbe
    /\ freeSlots \in {numberSlots(s) : s \in SeqsUpTo(SlotKinds, MaxFreeSlots)}
    /\ blocks = <<>>
    /\ suggestions = <<>>
    /\ scoredAt = 0
    /\ IdleParser
    /\ IdleExtra
    /\ pc = "input"

\* generateSuggestions(subjects, freeSlots, deadlines, activeDelays); the clock
\* is read once by generateSuggestions and again, elapsed units later, by
\* calculateSubjectPriorities.
GenerateSuggestions ==
    /\ pc = "input"
    /\ \E elapsed \in 0..1 :
           LET run == suggestionRun(subjects, freeSlots, deadlines, activeDelays,
                                    now, now + elapsed)
           IN  /\ priorities' = run.priorities
               /\ numSlots' = run.numSlots
               /\ allocation' = run.distribution
               /\ suggestions' = run.suggestions
               /\ scoredAt' = IF run.scored THEN now + elapsed ELSE scoredAt
    /\ pc' = "suggested"
    /\ UNCHANGED <<now, subjects, deadlines, activeDelays, pool, probe,
                   freeSlots, blocks, parserVars, extraVars>>

NextSuggest == GenerateSuggestions

SpecSuggest == InitSuggest /\ [][NextSuggest]_vars

\* ------------------------------------------------------------- the parser
\* Every string of a few characters of each kind, and every code made of a
\* digit, a letter and some digits, bare or with a blank on either side.
SmallAlphabet == {"1", "2", "5", "7", "N", "m", "X", " "}

ShiftLetters == {"M", "T", "N", "m", "t", "n", "X", "x"}

DigitChars == {Digits[i] : i \in 1..Len(Digits)}

ShapedCodes ==
    {<<d, l>> \o b :
        d \in DigitChars, l \in ShiftLetters,
        b \in UNION {[1..k -> DigitChars] : k \in 1..MaxBlockDigits}}

InitParser ==
    /\ now = 0
    /\ subjects = <<>>
    /\ deadlines = <<>>
    /\ activeDelays = <<>>
    /\ priorities = <<>>
    /\ numSlots = 0
    /\ pool = <<>>
    /\ allocation = <<>>
    /\ probe = IdleProbe
    /\ IdleSuggest
    /\ code \in SeqsUpTo(SmallAlphabet, MaxCodeLen)
                   \cup ShapedCodes
                   \cup {<<" ">> \o c : c \in ShapedCodes}
                   \cup {c \o <<" ">> : c \in ShapedCodes}
    /\ parsed = <<>>
    /\ IdleExtra
    /\ pc = "input"

\* parseSigaaSchedule(code)
ParseSigaaSchedule ==
    /\ pc = "input"
    /\ parsed' = parseSigaaSchedule(code)
    /\ pc' = "parsed"
    /\ UNCHANGED <<now, subjects, deadlines, activeDelays, priorities, numSlots,
                   pool, allocation, probe, freeSlots, blocks, suggestions,
                   scoredAt, code, extraVars>>

NextParser == ParseSigaaSchedule

SpecParser == InitParser /\ [][NextParser]_vars

\* -------------------------------------------------- several codes at once
\* Up to MaxTokens tokens, valid and invalid, with one of the separators (or
\* a run of two) between them and possibly before and after them.
Tokens ==
    {<<"3", "N", "3", "4">>, <<"5", "m", "2", "1">>, <<"9", "X", "9", "9">>,
     <<"3", "N", "5", "6">>}

Separators == {<<" ">>, <<",">>, <<";">>, <<",", " ">>}

RECURSIVE joined(_, _)
joined(tokens, separators) ==
    IF Len(tokens) = 1 THEN tokens[1]
    ELSE tokens[1] \o separators[1] \o joined(Tail(tokens), Tail(separators))

CodeLists ==
    UNION {{joined(t, sp) : t \in [1..k -> Tokens], sp \in [1..(k - 1) -> Separators]} :
              k \in 1..MaxTokens}

InitMulti ==
    /\ now = 0
    /\ subjects = <<>>
    /\ deadlines = <<>>
    /\ activeDelays = <<>>
    /\ priorities = <<>>
    /\ numSlots = 0
    /\ pool = <<>>
    /\ allocation = <<>>
    /\ probe = IdleProbe
    /\ IdleSuggest
    /\ IdleParser
    /\ codes \in {<<>>} \cup {before \o list \o after :
                     before \in {<<>>, <<" ">>}, list \in CodeLists,
                     after \in {<<>>, <<";">>}}
    /\ schedules = <<>>
    /\ parsedServer = <<>>
    /\ IdleStore
    /\ IdleLimit
    /\ pc = "input"

\* parseMultipleSigaaSchedules(codes)
ParseMultipleSigaaSchedules ==
    /\ pc = "input"
    /\ schedules' = parseMultipleSigaaSchedules(codes)
    /\ pc' = "parsedAll"
    /\ UNCHANGED <<now, subjects, deadlines, activeDelays, priorities, numSlots,
                   pool, allocation, probe, freeSlots, blocks, suggestions,
                   scoredAt, parserVars, codes, parsedServer, storeVars, limitVars>>

NextMulti == ParseMultipleSigaaSchedules

SpecMulti == InitMulti /\ [][NextMulti]_vars

\* ------------------------------------------- both copies on the same code
\* parseSigaaSchedule(code) of extract-enrollment
ParseSigaaScheduleServer ==
    /\ pc = "parsed"
    /\ parsedServer' = parseSigaaScheduleServer(code)
    /\ pc' = "compared"
    /\ UNCHANGED <<now, subjects, deadlines, activeDelays, priorities, numSlots,
                   pool, allocation, probe, freeSlots, blocks, suggestions,
                   scoredAt, parserVars, codes, schedules, storeVars, limitVars>>

NextDecoders == ParseSigaaSchedule \/ ParseSigaaScheduleServer

SpecDecoders == InitParser /\ [][NextDecoders]_vars

\* ------------------------------------------------- the delay store in use
\* The clock moves by one unit or by one unit less than the life of a delay.
ClockSteps == {1, expiryFrom(0) - 1}

StoreSubjects == 1..MaxStoreSubjects

\* A call in flight: phase "write" (its insert, update or delete is on its
\* way), "select" (fetchDelays is about to query), "set" (the rows have come
\* back), "done" (returned true) or "failed" (returned false).
Call(kind, subjectId, phase, existing, expiresAt, data) ==
    [kind |-> kind, subject |-> subjectId, phase |-> phase,
     existing |-> existing, expires_at |-> expiresAt, data |-> data]

InitStore ==
    /\ now = 0
    /\ subjects = <<>>
    /\ deadlines = <<>>
    /\ activeDelays = <<>>
    /\ priorities = <<>>
    /\ numSlots = 0
    /\ pool = <<>>
    /\ allocation = <<>>
    /\ probe = IdleProbe
    /\ IdleSuggest
    /\ IdleParser
    /\ IdleMulti
    /\ IdleStore
    /\ IdleLimit
    /\ pc = "input"

idleStore == <<subjects, deadlines, activeDelays, priorities, numSlots, pool,
               allocation, probe, freeSlots, blocks, suggestions, scoredAt,
               parserVars, multiVars, limitVars, pc>>

\* markAsDelayed(subjectId) up to its first await
MarkAsDelayed ==
    /\ Len(calls) < MaxCalls
    /\ \E subjectId \in StoreSubjects :
           calls' = Append(calls,
                           Call("markAsDelayed", subjectId, "write",
                                findDelay(localDelays, subjectId),
                                expiryFrom(now), <<>>))
    /\ UNCHANGED <<now, store, localDelays, nextId, ticks, idleStore>>

\* clearDelay(subjectId) up to its first await
ClearDelay ==
    /\ Len(calls) < MaxCalls
    /\ \E subjectId \in StoreSubjects :
           calls' = Append(calls,
                           Call("clearDelay", subjectId, "write", <<>>, 0, <<>>))
    /\ UNCHANGED <<now, store, localDelays, nextId, ticks, idleStore>>

\* fetchDelays() called on its own (the effect of the calendar page)
FetchDelays ==
    /\ Len(calls) < MaxCalls
    /\ calls' = Append(calls, Call("fetchDelays", 0, "select", <<>>, 0, <<>>))
    /\ UNCHANGED <<now, store, localDelays, nextId, ticks, idleStore>>

\* The database runs the insert, update or delete of a call.
WriteArrives ==
    \E c \in 1..Len(calls) :
        /\ calls[c].phase = "write"
        /\ IF calls[c].kind = "clearDelay"
           THEN /\ store' = deleteRows(store, calls[c].subject)
                /\ nextId' = nextId
           ELSE IF calls[c].existing # <<>>
           THEN /\ store' = updateRow(store, calls[c].existing[1].id,
                                      calls[c].expires_at)
                /\ nextId' = nextId
           ELSE /\ store' = insertRow(store, nextId + 1, calls[c].subject,
                                      calls[c].expires_at)
                /\ nextId' = nextId + 1
        /\ calls' = [calls EXCEPT ![c].phase = "select"]
        /\ UNCHANGED <<now, localDelays, ticks, idleStore>>

\* The request of a call comes back with an error: catch, return false.
WriteFails ==
    \E c \in 1..Len(calls) :
        /\ calls[c].phase = "write"
        /\ calls' = [calls EXCEPT ![c].phase = "failed"]
        /\ UNCHANGED <<now, store, localDelays, nextId, ticks, idleStore>>

\* fetchDelays reads the clock and the database answers its query.
SelectArrives ==
    \E c \in 1..Len(calls) :
        /\ calls[c].phase = "select"
        /\ \E data \in Orderings(selectRows(store, now)) :
               calls' = [calls EXCEPT ![c].phase = "set", ![c].data = data]
        /\ UNCHANGED <<now, store, localDelays, nextId, ticks, idleStore>>

\* setDelays(data || []), and the call returns
SetDelays ==
    \E c \in 1..Len(calls) :
        /\ calls[c].phase = "set"
        /\ localDelays' = calls[c].data
        /\ calls' = [calls EXCEPT ![c].phase = "done"]
        /\ UNCHANGED <<now, store, nextId, ticks, idleStore>>

\* Time passes.
ClockAdvances ==
    /\ ticks < MaxTicks
    /\ \E step \in ClockSteps : now' = now + step
    /\ ticks' = ticks + 1
    /\ UNCHANGED <<store, localDelays, calls, nextId, idleStore>>

NextStore ==
    \/ MarkAsDelayed
    \/ ClearDelay
    \/ FetchDelays
    \/ WriteArrives
    \/ WriteFails
    \/ SelectArrives
    \/ SetDelays
    \/ ClockAdvances

SpecStore == InitStore /\ [][NextStore]_vars

\* --------------------------------------------- the rate-limit function in use
\* The addresses the sign-in form sends: one address in three spellings, and
\* another address.
Emails == {<<"u">>, <<"U">>, <<"u", " ">>, <<"v">>}

\* The clock moves by one minute or by four.
LimitSteps == {60 * 1000, 4 * 60 * 1000}

InitLimit ==
    /\ now = 0
    /\ subjects = <<>>
    /\ deadlines = <<>>
    /\ activeDelays = <<>>
    /\ priorities = <<>>
    /\ numSlots = 0
    /\ pool = <<>>
    /\ allocation = <<>>
    /\ probe = IdleProbe
    /\ IdleSuggest
    /\ IdleParser
    /\ IdleMulti
    /\ IdleStore
    /\ IdleLimit
    /\ pc = "input"

idleLimit == <<subjects, deadlines, activeDelays, priorities, numSlots, pool,
               allocation, probe, freeSlots, blocks, suggestions, scoredAt,
               parserVars, multiVars, store, localDelays, calls, nextId, pc>>

\* A request without email, or with an action the function does not know
Rejected ==
    /\ \/ \E action \in {"check", "failed", "success", "record"} :
              request' = [email |-> <<>>, action |-> action]
       \/ \E email \in Emails :
              request' = [email |-> email, action |-> "other"]
    /\ reply' = [status |-> 400]
    /\ UNCHANGED <<now, attempts, ticks, idleLimit>>

\* action "check"; the select fails (selected = FALSE) or returns the rows in
\* an order of the database's choosing.
Check ==
    \E email \in Emails, selected \in BOOLEAN :
        LET normalizedEmail == normalize(email)
            fiveMinutesAgo == now - FIVE_MINUTES
            found == selectFailedSince(attempts, normalizedEmail, fiveMinutesAgo)
        IN  /\ request' = [email |-> email, action |-> "check"]
            /\ IF ~selected
               THEN reply' = [status |-> 200, body |-> [blocked |-> FALSE]]
               ELSE \E last \in (IF found = <<>> THEN {0} ELSE 1..Len(found)) :
                        reply' = [status |-> 200,
                                  body |-> checkBody(found, last, now)]
            /\ UNCHANGED <<now, attempts, ticks, idleLimit>>

\* action "failed"; the insert and the select may each fail, which the
\* function logs or ignores.
Failed ==
    /\ Len(attempts) < MaxAttempts
    /\ \E email \in Emails, inserted \in BOOLEAN, selected \in BOOLEAN :
           LET normalizedEmail == normalize(email)
               fiveMinutesAgo == now - FIVE_MINUTES
               rows == IF inserted
                       THEN Append(attempts, AttemptRow(normalizedEmail, now, FALSE))
                       ELSE attempts
               found == IF selected
                        THEN selectFailedSince(rows, normalizedEmail, fiveMinutesAgo)
                        ELSE <<>>
           IN  /\ request' = [email |-> email, action |-> "failed"]
               /\ attempts' = rows
               /\ reply' = [status |-> 200, body |-> failedBody(found)]
    /\ UNCHANGED <<now, ticks, idleLimit>>

\* action "success"
Success ==
    /\ \E email \in Emails, deleted \in BOOLEAN :
           /\ request' = [email |-> email, action |-> "success"]
           /\ attempts' = IF deleted
                          THEN deleteByEmail(attempts, normalize(email))
                          ELSE attempts
    /\ reply' = [status |-> 200, body |-> [cleared |-> TRUE]]
    /\ UNCHANGED <<now, ticks, idleLimit>>

\* action "record"; success is what the second read of the request body gives.
Record ==
    /\ Len(attempts) < MaxAttempts
    /\ \E email \in Emails, success \in BOOLEAN :
           LET normalizedEmail == normalize(email)
               rows == Append(attempts, AttemptRow(normalizedEmail, now, success))
           IN  /\ request' = [email |-> email, action |-> "record"]
               /\ attempts' = IF success
                              THEN deleteFailedByEmail(rows, normalizedEmail)
                              ELSE rows
    /\ reply' = [status |-> 200, body |-> [recorded |-> TRUE]]
    /\ UNCHANGED <<now, ticks, idleLimit>>

\* Time passes between two requests.
TimePasses ==
    /\ ticks < MaxTicks
    /\ \E step \in LimitSteps : now' = now + step
    /\ ticks' = ticks + 1
    /\ UNCHANGED <<attempts, request, reply, idleLimit>>

NextLimit ==
    \/ Rejected
    \/ Check
    \/ Failed
    \/ Success
    \/ Record
    \/ TimePasses

SpecLimit == InitLimit /\ [][NextLimit]_vars

\* ====================================================== properties checked
Range(seq) == {seq[i] : i \in 1..Len(seq)}

Count(seq, id) == Cardinality({i \in 1..Len(seq) : seq[i].subject.id = id})

Scores(seq) == [i \in 1..Len(seq) |-> seq[i].score]

\* ---- C1 (Spec)
\* C1: every record returned by calculateSubjectPriorities carries the
\* subject's weights D, B in 1..5 and score = (D + B) * (1 + urgencyFactor) +
\* delayBonus, with the urgencyFactor and delayBonus of the same record.
C1_ScoreIsFormula ==
    pc = "scored" =>
        \A p \in Range(priorities) :
            /\ p.difficultyWeight = p.subject.difficulty_weight
            /\ p.dedicationWeight = p.subject.dedication_weight
            /\ p.difficultyWeight \in 1..5 /\ p.dedicationWeight \in 1..5
            /\ p.score = (p.difficultyWeight + p.dedicationWeight)
                             * (10 + p.urgencyFactor) + p.delayBonus

\* A subject with weights 5 and 1, a deadline two days away and a live delay:
\* score 6 * 2.2 + 2 = 15.2.
C1_Witness ==
    /\ pc = "scored"
    /\ \E p \in Range(priorities) :
          /\ p.difficultyWeight = 5 /\ p.dedicationWeight = 1
          /\ p.urgencyFactor = 12 /\ p.delayBonus = 20 /\ p.score = 152

\* ---- C3 (Spec)
OwnDeadlines(p) == {d \in Range(deadlines) : d.subject_id = p.subject.id}

\* C3: a scored subject whose deadline lies one day in the past (daysUntil =
\* -1) has urgencyFactor 2.0.
C3_PastDeadlineIsMostUrgent ==
    pc = "scored" =>
        \A p \in Range(priorities) :
            (/\ OwnDeadlines(p) # {}
             /\ \A d \in OwnDeadlines(p) :
                    differenceInDays(d.start_datetime, now) = -1)
                => p.urgencyFactor = 20

\* ---- C4 (Spec)
FutureOwnDeadlines(p) ==
    {d \in OwnDeadlines(p) : d.start_datetime > now}

C5_DelayBonusIffLiveDelay ==
    pc = "scored" =>
        \A p \in Range(priorities) :
            p.delayBonus =
                IF \E r \in Range(activeDelays) :
                       r.subject_id = p.subject.id /\ r.expires_at > now
                THEN 20 ELSE 0

\* One subject has a live record and the bonus; the other has a record that
\* expires exactly now and no bonus.
C5_Witness ==
    /\ pc = "scored"
    /\ \E p, q \in Range(priorities) :
          /\ p.delayBonus = 20
          /\ q.delayBonus = 0
          /\ \E r \in Range(activeDelays) :
                r.subject_id = q.subject.id /\ r.expires_at = now

\* ---- C6 (Spec)
\* C6: the returned list is in non-increasing score order, and records of
\* equal score keep the order their subjects have in the input list (a
\* subject's id is its position in the input).
C6_SortedAndStable ==
    pc = "scored" =>
        \A i, j \in 1..Len(priorities) :
            i < j =>
                /\ priorities[i].score >= priorities[j].score
                /\ priorities[i].score = priorities[j].score
                       => priorities[i].subject.id < priorities[j].subject.id

\* Three scored subjects, two of them tied, the first of the input ranked last.
C6_Witness ==
    /\ pc = "scored"
    /\ Len(priorities) = 3
    /\ priorities[3].subject.id = 1
    /\ priorities[1].score = priorities[2].score
    /\ priorities[2].score > priorities[3].score

\* ---- C2 (SpecFormula)
ProbeDays == differenceInDays(probe.nearestDeadline[1].start_datetime, now)

FinerLadder(days) ==
    IF days < 0 THEN 20
    ELSE IF days \in {0, 1} THEN 15
    ELSE IF days = 2 THEN 12
    ELSE IF days = 3 THEN 10
    ELSE IF days \in 4..7 THEN 5
    ELSE 0

CoarserLadder(days) ==
    IF days < 0 THEN 15
    ELSE IF days \in 0..3 THEN 10
    ELSE IF days \in 4..7 THEN 5
    ELSE 0

\* C2 as stated: both copies of calculateUrgencyFactor give 2.0 below 0 days,
\* 1.5 for 0 or 1, 1.2 for 2, 1.0 for 3, 0.5 for 4..7, 0 from 8 on, and 0
\* without a deadline.
C2_EveryCopyFollowsFinerLadder ==
    pc = "probe" =>
        IF probe.nearestDeadline = <<>>
        THEN probe.urgencyFactor = 0 /\ probe.urgencyFactorCoarse = 0
        ELSE /\ probe.urgencyFactor = FinerLadder(ProbeDays)
             /\ probe.urgencyFactorCoarse = FinerLadder(ProbeDays)

\* C2 amended: the hook's calculateUrgencyFactor follows the finer ladder; the
\* copy in src/unnamed/part_012 gives 1.5 below 0 days, 1.0 for 0..3, 0.5 for
\* 4..7 and 0 from 8 on; both give 0 without a deadline.
C2_HookFollowsFinerLadder ==
    pc = "probe" =>
        IF probe.nearestDeadline = <<>>
        THEN probe.urgencyFactor = 0 /\ probe.urgencyFactorCoarse = 0
        ELSE /\ probe.urgencyFactor = FinerLadder(ProbeDays)
             /\ probe.urgencyFactorCoarse = CoarserLadder(ProbeDays)

\* A deadline two days ahead: 1.2 on the finer ladder, 1.0 on the coarser.
C2_Witness ==
    /\ pc = "probe"
    /\ probe.nearestDeadline # <<>>
    /\ ProbeDays = 2
    /\ probe.urgencyFactor = 12
    /\ probe.urgencyFactorCoarse = 10

\* ---- C7 (SpecFormula)
\* C7: with the other inputs fixed, raising D, raising B or raising the
\* urgency factor never lowers the score (D, B in 1..5, U in {0, 0.5, 1.0,
\* 1.2, 1.5, 2.0}, delayBonus 0 or 2.0).
C7_ScoreMonotone ==
    [][/\ (/\ probe'.D >= probe.D /\ probe'.B = probe.B
           /\ probe'.urgencyFactor = probe.urgencyFactor
           /\ probe'.delayBonus = probe.delayBonus)
          => probe'.score >= probe.score
       /\ (/\ probe'.B >= probe.B /\ probe'.D = probe.D
           /\ probe'.urgencyFactor = probe.urgencyFactor
           /\ probe'.delayBonus = probe.delayBonus)
          => probe'.score >= probe.score
       /\ (/\ probe'.urgencyFactor >= probe.urgencyFactor
           /\ probe'.D = probe.D /\ probe'.B = probe.B
           /\ probe'.delayBonus = probe.delayBonus)
          => probe'.score >= probe.score]_vars

\* The largest input of every kind: (5 + 5) * (1 + 2.0) + 2.0 = 32.
C7_Witness ==
    /\ pc = "probe"
    /\ probe.D = 5 /\ probe.B = 5
    /\ probe.urgencyFactor = 20 /\ probe.delayBonus = 20
    /\ probe.score = 320

\* ---- C8 (SpecDistribute)
\* C8: distributeSubjectsToSlots(priorities, n) has length n when priorities
\* is not empty, and is empty when priorities is empty.
C8_LengthIsNumSlots ==
    pc = "distributed" =>
        IF priorities = <<>> THEN allocation = <<>>
        ELSE Len(allocation) = numSlots

\* More slots than pool entries: the result is padded up to numSlots.
C8_Witness ==
    /\ pc = "distributed"
    /\ Len(priorities) >= 2
    /\ numSlots > Len(pool)
    /\ Len(pool) > 0
    /\ Len(allocation) = numSlots

\* ---- C9 (SpecDistribute)
RECURSIVE SumOfEntries(_)
SumOfEntries(prios) ==
    IF prios = <<>> THEN 0
    ELSE (IF Head(prios).score >= 150 THEN 4
          ELSE IF Head(prios).score >= 120 THEN 2 ELSE 1)
             + SumOfEntries(Tail(prios))

C11_PaddingCyclesPriorities ==
    (pc = "distributed" /\ priorities # <<>> /\ numSlots # 0
        /\ numSlots >= Len(pool)) =>
        /\ Len(allocation) >= Len(pool)
        /\ SubSeq(allocation, 1, Len(pool)) = pool
        /\ numSlots = Len(pool) => allocation = pool
        /\ \A k \in 0..(numSlots - Len(pool) - 1) :
               /\ Len(pool) + k + 1 <= Len(allocation)
               /\ allocation[Len(pool) + k + 1]
                      = priorities[(k % Len(priorities)) + 1]

\* Two subjects of one pool entry each and five slots: the padding wraps
\* around the ranked list (first, second, first again).
C11_Witness ==
    /\ pc = "distributed"
    /\ Len(priorities) = 2
    /\ Len(pool) = 2
    /\ numSlots = 5
    /\ priorities[1].score > priorities[2].score
    /\ allocation = <<priorities[1], priorities[2],
                      priorities[1], priorities[2], priorities[1]>>

\* ---- C12 (SpecDistribute)
\* C12: whenever numSlots is at least the number of scored subjects, every
\* scored subject occurs in the result.
C12_EverySubjectCovered ==
    (pc = "distributed" /\ numSlots >= Len(priorities)) =>
        \A p \in Range(priorities) : Count(allocation, p.subject.id) >= 1


\* ---------------------------------------------- properties of the segmenter
SlotEnd == freeSlots[1].end_datetime[1]

SlotLength == SlotEnd - freeSlots[1].start_datetime

BlockLength(b) == b.endTime - b.startTime

\* ---- C13 (SpecSegment)
\* No block returned by generateStudyBlocksForSubject ends after the end of the
\* slot, and the last block of a non-empty result is a study block, not a break.
C13_NoBlockPastEndNoTrailingBreak ==
    (pc = "segmented" /\ blocks # <<>>) =>
        /\ \A i \in 1..Len(blocks) : blocks[i].endTime <= SlotEnd
        /\ ~blocks[Len(blocks)].isBreak

\* Study, break, study, and then room for a break but not for the study time
\* that would have to follow it.
C13_Witness ==
    /\ pc = "segmented"
    /\ Len(blocks) = 3
    /\ blocks[2].isBreak
    /\ ~blocks[3].isBreak
    /\ SlotEnd - blocks[3].endTime >= BREAK_MINUTES * UnitsPerMinute

\* ---- C14 (SpecSegment)
\* The blocks of one slot are ordered and do not overlap: the first starts at
\* the start of the slot, every block starts before it ends, each later block
\* starts where the one before it ends, and study and break blocks alternate.
C14_OrderedContiguousAlternating ==
    (pc = "segmented" /\ blocks # <<>>) =>
        /\ blocks[1].startTime = freeSlots[1].start_datetime
        /\ \A i \in 1..Len(blocks) : blocks[i].startTime < blocks[i].endTime
        /\ \A i \in 1..(Len(blocks) - 1) :
               /\ blocks[i + 1].startTime = blocks[i].endTime
               /\ blocks[i + 1].isBreak # blocks[i].isBreak

C14_Witness ==
    /\ pc = "segmented"
    /\ Len(blocks) = 5
    /\ blocks[2].isBreak
    /\ blocks[4].isBreak
    /\ BlockLength(blocks[5]) < STUDY_BLOCK_MINUTES * UnitsPerMinute

\* ---- C15 (SpecSegment)
\* A slot of L minutes with 20 <= L < 80 yields exactly one study block of
\* min(50, L) minutes and no break; a 45-minute slot yields one 45-minute block.
C15_ShortSlotIsOneStudyBlock ==
    \A L \in 20..79 :
        (pc = "segmented" /\ freeSlots[1].end_datetime # <<>>
            /\ SlotLength = L * UnitsPerMinute) =>
            /\ Len(blocks) = 1
            /\ ~blocks[1].isBreak
            /\ BlockLength(blocks[1]) =
                   (IF L < 50 THEN L ELSE 50) * UnitsPerMinute
            /\ (L = 45 => BlockLength(blocks[1]) = 45 * UnitsPerMinute)

C15_Witness ==
    /\ pc = "segmented"
    /\ freeSlots[1].end_datetime # <<>>
    /\ SlotLength = 45 * UnitsPerMinute
    /\ Len(blocks) = 1
    /\ BlockLength(blocks[1]) = 45 * UnitsPerMinute


\* -------------------------------------------- properties of the orchestrator
EligibleSlot(slot) == slot.start_datetime > now /\ slot.subject_id = 0

EligibleSubject(subject) ==
    /\ subject.difficulty_weight \in 1..5
    /\ subject.dedication_weight \in 1..5
    /\ subject.status # "finalizada"

SuggestionsFor(slot) ==
    Cardinality({i \in 1..Len(suggestions) : suggestions[i].freeSlot = slot})

\* ---- C16 (SpecSuggest)
\* Every suggestion belongs to a free slot of the input that starts strictly
\* after now and has no manual subject; numSlots counts exactly those slots,
\* and a slot with a manual subject receives no suggestion.
C16_OnlyFutureUnassignedSlots ==
    pc = "suggested" =>
        /\ \A i \in 1..Len(suggestions) :
               /\ suggestions[i].freeSlot \in Range(freeSlots)
               /\ suggestions[i].freeSlot.start_datetime > now
               /\ suggestions[i].freeSlot.subject_id = 0
        /\ numSlots # 0 =>
               numSlots = Cardinality({i \in 1..Len(freeSlots) :
                                          EligibleSlot(freeSlots[i])})
        /\ \A slot \in Range(freeSlots) :
               slot.subject_id # 0 => SuggestionsFor(slot) = 0

\* A future slot with a manual subject next to a future slot without one, and
\* a slot in the past: one slot is counted and gets the suggestion.
C16_Witness ==
    /\ pc = "suggested"
    /\ Len(freeSlots) = 3
    /\ \E slot \in Range(freeSlots) :
           slot.subject_id # 0 /\ slot.start_datetime > now
    /\ \E slot \in Range(freeSlots) : slot.start_datetime <= now
    /\ numSlots = 1
    /\ Len(suggestions) = 1

\* ---- C17 (SpecSuggest)
\* A subject without a difficulty or dedication weight, or finished, is in no
\* record of calculateSubjectPriorities and is no assigned subject or block
\* subject of a suggestion; the call returns all the same, and its results are
\* those of the call on the other subjects alone.
C17_UnscoredSubjectsAreIgnored ==
    pc = "suggested" =>
        LET others == SelectSeq(subjects, EligibleSubject)
        IN  /\ \A p \in Range(priorities) : EligibleSubject(p.subject)
            /\ \A i \in 1..Len(suggestions) :
                   /\ Len(suggestions[i].assignedSubject) = 1
                   /\ EligibleSubject(suggestions[i].assignedSubject[1])
                   /\ \A j \in 1..Len(suggestions[i].blocks) :
                          EligibleSubject(suggestions[i].blocks[j].subject)
            /\ numSlots # 0 =>
                   priorities = calculateSubjectPriorities(others, deadlines,
                                                           activeDelays, scoredAt)
            /\ suggestions = generateSuggestions(others, freeSlots, deadlines,
                                                 activeDelays, now, scoredAt)

C17_Witness ==
    /\ pc = "suggested"
    /\ Len(subjects) = 2
    /\ subjects[1].status = "finalizada"
    /\ EligibleSubject(subjects[2])
    /\ Len(priorities) = 1
    /\ suggestions # <<>>
    /\ \A i \in 1..Len(suggestions) :
           suggestions[i].assignedSubject = <<subjects[2]>>

\* ---- C18 (SpecSuggest)
\* generateSuggestions returns the empty list when no subject has both weights
\* and is not finished, or when no free slot is in the future and unassigned.
C18_NothingEligibleGivesEmptyList ==
    (pc = "suggested"
        /\ \/ \A s \in Range(subjects) : ~EligibleSubject(s)
           \/ \A slot \in Range(freeSlots) : ~EligibleSlot(slot)) =>
        suggestions = <<>>

\* Subjects are given but none can be scored, while a slot could be used.
C18_Witness ==
    /\ pc = "suggested"
    /\ subjects # <<>>
    /\ \A s \in Range(subjects) : ~EligibleSubject(s)
    /\ \E slot \in Range(freeSlots) :
           /\ EligibleSlot(slot)
           /\ slot.end_datetime # <<>>
           /\ slot.end_datetime[1] - slot.start_datetime >= 20 * UnitsPerMinute
    /\ suggestions = <<>>

\* ---- C19 (SpecSuggest)
\* With at least one scored subject, a future unassigned slot gets exactly one
\* suggestion when it lasts 20 minutes or more and none when it is shorter or
\* has no end; every suggestion has at least one block.
C19_OneSuggestionPerUsableSlot ==
    (pc = "suggested" /\ \E s \in Range(subjects) : EligibleSubject(s)) =>
        /\ \A slot \in Range(freeSlots) :
               EligibleSlot(slot) =>
                   SuggestionsFor(slot) =
                       IF /\ slot.end_datetime # <<>>
                          /\ slot.end_datetime[1] - slot.start_datetime
                                 >= 20 * UnitsPerMinute
                       THEN 1 ELSE 0
        /\ \A i \in 1..Len(suggestions) : suggestions[i].blocks # <<>>

C19_Witness ==
    /\ pc = "suggested"
    /\ \E s \in Range(subjects) : EligibleSubject(s)
    /\ Len(freeSlots) = 3
    /\ \A slot \in Range(freeSlots) : EligibleSlot(slot)
    /\ \E slot \in Range(freeSlots) : slot.end_datetime = <<>>
    /\ \E slot \in Range(freeSlots) :
           /\ slot.end_datetime # <<>>
           /\ slot.end_datetime[1] - slot.start_datetime < 20 * UnitsPerMinute
    /\ Len(suggestions) = 1


\* ------------------------------------------------- properties of the parser
\* The code as the parser reads it: without the blanks around it, in capitals.
Normalised == toUpperCase(trim(code))

HasCodeShape ==
    /\ Len(Normalised) >= 3
    /\ Normalised[1] \in DigitChars
    /\ Normalised[2] \in {"A", "B", "M", "N", "T", "X"}
    /\ \A i \in 3..Len(Normalised) : Normalised[i] \in DigitChars

BlocksOfShift(letter) == IF letter = "N" THEN 1..4 ELSE 1..6

\* ---- C20 (SpecParser)
\* parseSigaaSchedule maps the weekday digits 2..7 to day_of_week 1..6
\* (Monday..Saturday) and returns null when the code does not read digit, shift
\* letter, digits, when its weekday digit is outside 2..7, when its letter is
\* not M, T or N, or when none of its block digits is an index of the shift;
\* "9X99", "1M12" and "3N56" give null.
C20_WeekdayMapElseNull ==
    pc = "parsed" =>
        /\ parsed # <<>> =>
               /\ HasCodeShape
               /\ parseInt(Normalised[1]) \in 2..7
               /\ Normalised[2] \in {"M", "T", "N"}
               /\ \E i \in 3..Len(Normalised) :
                      parseInt(Normalised[i]) \in BlocksOfShift(Normalised[2])
               /\ parsed[1].day_of_week = parseInt(Normalised[1]) - 1
               /\ parsed[1].day_of_week \in 1..6
        /\ code \in {<<"9", "X", "9", "9">>, <<"1", "M", "1", "2">>,
                     <<"3", "N", "5", "6">>} => parsed = <<>>

\* A code of the right shape and weekday whose block digits are no blocks of
\* the evening shift.
C20_Witness ==
    /\ pc = "parsed"
    /\ code = <<"3", "N", "5", "6">>
    /\ parsed = <<>>


ValidBlockNumbers ==
    {parseInt(Normalised[i]) : i \in 3..Len(Normalised)}
        \cap BlocksOfShift(Normalised[2])

Lowest(S) == CHOOSE x \in S : \A y \in S : x <= y

Highest(S) == CHOOSE x \in S : \A y \in S : x >= y

\* The timetable as the comments of SHIFT_BLOCKS describe it: morning and
\* afternoon blocks last one hour from 07:00 and 13:00, evening blocks last 50
\* minutes from 18:30.
BlockStart(letter, b) ==
    CASE letter = "M" -> <<6 + b, 0>>
      [] letter = "T" -> <<12 + b, 0>>
      [] OTHER -> LET m == 18 * 60 + 30 + 50 * (b - 1) IN <<m \div 60, m % 60>>

BlockEnd(letter, b) ==
    CASE letter = "M" -> <<7 + b, 0>>
      [] letter = "T" -> <<13 + b, 0>>
      [] OTHER -> LET m == 18 * 60 + 30 + 50 * b IN <<m \div 60, m % 60>>

IsValidCode ==
    /\ HasCodeShape
    /\ parseInt(Normalised[1]) \in 2..7
    /\ Normalised[2] \in {"M", "T", "N"}
    /\ ValidBlockNumbers # {}

Schedule(day, startTime, endTime) ==
    <<[day_of_week |-> day, start_time |-> startTime, end_time |-> endTime]>>

\* ---- C21 (SpecParser)
\* For a valid code parseSigaaSchedule returns the start of the lowest and the
\* end of the highest block digit that is a block of the shift, whatever the
\* order, repetition, gaps or letter case: "3N34" and "3n43" give Tuesday
\* 20:10-21:50, "2T23" Monday 14:00-16:00, "5M12" Thursday 07:00-09:00.
C21_LowestStartHighestEnd ==
    pc = "parsed" =>
        /\ IsValidCode =>
               /\ parsed # <<>>
               /\ parsed[1].start_time =
                      BlockStart(Normalised[2], Lowest(ValidBlockNumbers))
               /\ parsed[1].end_time =
                      BlockEnd(Normalised[2], Highest(ValidBlockNumbers))
        /\ code \in {<<"3", "N", "3", "4">>, <<"3", "n", "4", "3">>} =>
               parsed = Schedule(2, <<20, 10>>, <<21, 50>>)
        /\ code = <<"2", "T", "2", "3">> =>
               parsed = Schedule(1, <<14, 0>>, <<16, 0>>)
        /\ code = <<"5", "M", "1", "2">> =>
               parsed = Schedule(4, <<7, 0>>, <<9, 0>>)

\* Small letter, blocks in descending order.
C21_Witness ==
    /\ pc = "parsed"
    /\ code = <<"3", "n", "4", "3">>
    /\ parsed = Schedule(2, <<20, 10>>, <<21, 50>>)


\* ------------------------------------------ properties of the list parser
IsSeparatorChar(c) == c \in {" ", ",", ";"}

\* The token of str that starts at position i: up to the next separator.
RECURSIVE TokenFrom(_, _)
TokenFrom(str, i) ==
    IF i > Len(str) \/ IsSeparatorChar(str[i]) THEN <<>>
    ELSE <<str[i]>> \o TokenFrom(str, i + 1)

\* The tokens of str from position i on, in the order of the input.
RECURSIVE TokensFrom(_, _)
TokensFrom(str, i) ==
    IF i > Len(str) THEN <<>>
    ELSE IF IsSeparatorChar(str[i]) THEN TokensFrom(str, i + 1)
    ELSE LET token == TokenFrom(str, i)
         IN  <<token>> \o TokensFrom(str, i + Len(token))

ValidTokens(str) ==
    SelectSeq(TokensFrom(str, 1), LAMBDA t : parseSigaaSchedule(t) # <<>>)

\* ---- C22 (SpecMulti)
\* parseMultipleSigaaSchedules returns, in input order, the result of
\* parseSigaaSchedule for each token between blanks, commas and semicolons
\* that decodes, and nothing for the others: as many results as valid tokens.
C22_ResultsOfValidTokensInOrder ==
    pc = "parsedAll" =>
        LET valid == ValidTokens(codes)
        IN  /\ Len(schedules) = Len(valid)
            /\ \A k \in 1..Len(valid) :
                   <<schedules[k]>> = parseSigaaSchedule(valid[k])

\* A valid code, an invalid one after a semicolon, a valid one after a comma
\* and a blank.
C22_Witness ==
    /\ pc = "parsedAll"
    /\ codes = <<"5", "m", "2", "1", ";", "9", "X", "9", "9", ",", " ",
                 "3", "N", "3", "4">>
    /\ schedules = Schedule(4, <<7, 0>>, <<9, 0>>)
                       \o Schedule(2, <<20, 10>>, <<21, 50>>)


\* "HH:MM" strings compare as their pairs do.
TimeBefore(a, b) == a[1] < b[1] \/ (a[1] = b[1] /\ a[2] < b[2])

\* ---- C30 (SpecDecoders)
\* The parseSigaaSchedule of the client library and the one of the
\* extract-enrollment function both return null or both return the same
\* day_of_week, start_time and end_time, and a returned start_time is before
\* the returned end_time.
C30_DecodersAgree ==
    pc = "compared" =>
        /\ (parsed = <<>>) <=> (parsedServer = <<>>)
        /\ parsed # <<>> =>
               /\ parsed[1].day_of_week = parsedServer[1].day_of_week
               /\ parsed[1].start_time = parsedServer[1].start_time
               /\ parsed[1].end_time = parsedServer[1].end_time
               /\ TimeBefore(parsed[1].start_time, parsed[1].end_time)
               /\ TimeBefore(parsedServer[1].start_time, parsedServer[1].end_time)

\* An evening code with one block: the shortest schedule there is.
C30_Witness ==
    /\ pc = "compared"
    /\ code = <<"7", "n", "4", "9">>
    /\ parsed = Schedule(6, <<21, 0>>, <<21, 50>>)
    /\ parsedServer # <<>>
    /\ parsedServer[1].end_time = <<21, 50>>


\* ---- C23 (SpecSuggest)
\* Within one call of generateSuggestions the clock is captured once: the
\* scorer selects future deadlines and tests delay expiry at the instant used
\* to filter the free slots, so the priorities are those computed at now.
C23_ClockCapturedOnce ==
    (pc = "suggested" /\ numSlots # 0) =>
        /\ scoredAt = now
        /\ priorities =
               calculateSubjectPriorities(subjects, deadlines, activeDelays, now)


\* The position of a slot among the future unassigned slots by ascending
\* start, slots of equal start in input order (a slot's id is its index).
Rank(slot) ==
    Cardinality({j \in 1..Len(freeSlots) :
                    /\ EligibleSlot(freeSlots[j])
                    /\ \/ freeSlots[j].start_datetime < slot.start_datetime
                       \/ /\ freeSlots[j].start_datetime = slot.start_datetime
                          /\ j <= slot.id})

\* ---- C29 (SpecSuggest)
\* The k-th future unassigned slot by ascending start, counting the slots that
\* produce no blocks, receives the k-th entry of the distribution; the first
\* entry has the maximum score; every block of a suggestion carries the
\* suggestion's subject and slot id; suggestions are in ascending start order.
C29_AssignmentByPosition ==
    (pc = "suggested" /\ numSlots # 0) =>
        /\ \A p \in Range(priorities) : allocation[1].score >= p.score
        /\ \A i \in 1..Len(suggestions) :
               LET s == suggestions[i]
               IN  /\ s.assignedSubject = <<allocation[Rank(s.freeSlot)].subject>>
                   /\ \A j \in 1..Len(s.blocks) :
                          /\ s.blocks[j].subject = s.assignedSubject[1]
                          /\ s.blocks[j].freeSlotId = s.freeSlot.id
        /\ \A i \in 1..(Len(suggestions) - 1) :
               Rank(suggestions[i].freeSlot) < Rank(suggestions[i + 1].freeSlot)

\* Three future slots given latest first; the middle one by time is too
\* short, and the last one by time gets the third entry, not the second.
C29_Witness ==
    /\ pc = "suggested"
    /\ numSlots = 3
    /\ Len(priorities) = 2
    /\ allocation = <<priorities[1], priorities[2], priorities[1]>>
    /\ priorities[1].score > priorities[2].score
    /\ freeSlots[1].start_datetime > freeSlots[2].start_datetime
    /\ freeSlots[2].start_datetime > freeSlots[3].start_datetime
    /\ Len(suggestions) = 2
    /\ suggestions[1].freeSlot = freeSlots[3]
    /\ suggestions[2].freeSlot = freeSlots[1]
    /\ suggestions[2].assignedSubject = <<priorities[1].subject>>
    /\ Len(suggestions[2].blocks) = 3


StudyBlocks == SelectSeq(blocks, LAMBDA b : ~b.isBreak)

BreakBlocks == SelectSeq(blocks, LAMBDA b : b.isBreak)

\* ---- C28 (SpecSegment)
\* generateStudyBlocksForSubject returns for every slot, also one that ends at
\* or before its start: a slot of L whole minutes gives no study block when
\* L < 20 and 1 + floor((L - 20) / 60) study blocks when L >= 20; a study
\* block lasts 20 to 50 minutes, a break 10 minutes, and every pass of the
\* loop moves the cursor at least 20 minutes on.
C28_TerminatesWithCountedBlocks ==
    \A L \in SlotMinutes :
        (pc = "segmented" /\ freeSlots[1].end_datetime # <<>>
            /\ SlotLength = L * UnitsPerMinute) =>
            /\ Len(StudyBlocks) = IF L < 20 THEN 0 ELSE 1 + ((L - 20) \div 60)
            /\ L < 20 => blocks = <<>>
            /\ \A i \in 1..Len(StudyBlocks) :
                   /\ BlockLength(StudyBlocks[i]) >= 20 * UnitsPerMinute
                   /\ BlockLength(StudyBlocks[i]) <= 50 * UnitsPerMinute
            /\ \A i \in 1..Len(BreakBlocks) :
                   BlockLength(BreakBlocks[i]) = 10 * UnitsPerMinute
            /\ \A i \in 1..(Len(StudyBlocks) - 1) :
                   StudyBlocks[i + 1].startTime - StudyBlocks[i].startTime
                       >= 20 * UnitsPerMinute

\* A slot that ends before it starts: the call returns, with no block.
C28_Witness ==
    /\ pc = "segmented"
    /\ freeSlots[1].end_datetime # <<>>
    /\ SlotLength < 0
    /\ blocks = <<>>


\* -------------------------------------------- properties of the delay store
LiveRows(subjectId) ==
    {r \in store : r.subject_id = subjectId /\ r.expires_at > now}

\* ---- C24 (SpecStore)
\* After any interleaving of markAsDelayed, fetchDelays and clearDelay calls
\* the store holds at most one non-expired record per subject.
C24_AtMostOneLiveDelayPerSubject ==
    \A subjectId \in StoreSubjects : Cardinality(LiveRows(subjectId)) <= 1

\* ---- C25 (SpecStore)
\* A markAsDelayed issued at time t whose request succeeds leaves the subject
\* with a record that expires at exactly t + 24 hours, when it creates a
\* record and when it extends one.
C25_MarkSetsExpiryADayAhead ==
    [][\A c \in 1..Len(calls) :
           (/\ calls[c].kind = "markAsDelayed"
            /\ calls[c].phase = "write"
            /\ calls'[c].phase = "select") =>
               \E r \in store' :
                   /\ r.subject_id = calls[c].subject
                   /\ r.expires_at = calls[c].expires_at]_vars

\* ---- C26 (SpecLimit)
FailedRowsOf(email) ==
    {i \in 1..Len(attempts) : attempts[i].email = email /\ ~attempts[i].success}

\* Three failed attempts of the address lie within five minutes of each other
\* and the third of them is less than five minutes old.
ThirdAttemptRecent(email) ==
    \E i, j, k \in FailedRowsOf(email) :
        /\ i < j /\ j < k
        /\ attempts[k].attempted_at - attempts[i].attempted_at <= FIVE_MINUTES
        /\ now < attempts[k].attempted_at + FIVE_MINUTES

FailedInPrecedingFiveMinutes(email) ==
    {i \in FailedRowsOf(email) : attempts[i].attempted_at >= now - FIVE_MINUTES}

LowerCased(email) ==
    SelectSeq([i \in 1..Len(email) |-> IF email[i] = "U" THEN "u" ELSE email[i]],
              LAMBDA c : c # " ")

\* C26: every answered "check" for an address whose third failed attempt
\* within five minutes is less than five minutes old reports blocked = true
\* with remainingSeconds > 0 (a "success" deletes the attempts, so attempts
\* still stored were not cleared), and a check reports blocked = false
\* whenever fewer than 3 failed attempts lie in the preceding five minutes.
C26_BlockedFiveMinutesAfterThird ==
    [][(/\ request'.action = "check"
        /\ reply'.status = 200
        /\ "failedAttempts" \in DOMAIN reply'.body
        /\ attempts' = attempts
        /\ now' = now) =>
           LET email == LowerCased(request'.email)
           IN  /\ ThirdAttemptRecent(email) =>
                      /\ reply'.body.blocked
                      /\ reply'.body.remainingSeconds > 0
               /\ Cardinality(FailedInPrecedingFiveMinutes(email)) < 3 =>
                      ~reply'.body.blocked]_vars

====
